---- MODULE Spec2Model ----
(***************************************************************************)
(* Model of deploy.py: a one-shot deployment script for AWS Elastic        *)
(* Beanstalk.  One run is one execution of the script's main section       *)
(* (src/deploy.py:129-192).  The remote platform (applications, versions,  *)
(* buckets, the environment and its Status) is shared by all runs and is   *)
(* changed asynchronously by the platform itself.                          *)
(***************************************************************************)
EXTENDS Integers, Sequences, FiniteSets, TLC

(* ------------------------------ bounds -------------------------------- *)
MaxPolls == 2       \* iterations of the wait loop a run may make
MaxBuildSeconds == 1 \* the longest the external build takes
StartTime == 58     \* the wall clock (seconds into the day) when the model starts

Runs == {1, 2}      \* the executions of the script: a run and a re-run

(* ------------------------- program constants -------------------------- *)
GraceSeconds == 10  \* time.sleep(10)
PollSeconds == 30   \* time.sleep(30)

Dot == <<".">>
build_path == <<Dot, <<"build">>>>
application_path == build_path \o << <<"libs">> >>
elasticbeanstalk_files_list ==
  << <<Dot, <<"Dockerrun", ".", "aws", ".", "json">>>>,
     <<Dot, <<"Dockerfile">>>>,
     << <<"env", ".", "yaml">> >> >>
source_bundle_s3_bucket_prefix == "elasticbeanstalk"

(* The files the external build may leave in build/libs. *)
LibFiles == { <<"app", ".", "jar">>,
              <<"app-1", ".", "0", ".", "jar">>,
              <<"app", ".", "war">> }

(* Environment Status values of the platform; "absent" stands for        *)
(* describe_environments returning an empty list.                         *)
InProgress == {"Launching", "Updating", "Terminating"}
Quiescent == {"Ready", "Terminated"}
Statuses == InProgress \cup Quiescent
Absent == "absent"

(* ------------------------- pure helper functions ---------------------- *)
RECURSIVE LastDot(_, _)
LastDot(name, i) ==
  IF i <= 1 THEN 0
  ELSE IF name[i] = "." THEN i ELSE LastDot(name, i - 1)

Basename(path) == path[Len(path)]

\* os.path.splitext: split at the last dot that is not the leading one
Splitext(name) ==
  LET i == LastDot(name, Len(name))
  IN IF i = 0 THEN <<name, <<>>>>
     ELSE <<SubSeq(name, 1, i - 1), SubSeq(name, i, Len(name))>>

\* fnmatch of a file name against '*.jar' as glob applies it (no hidden files)
MatchesJar(name) ==
  /\ Len(name) >= 2
  /\ name[1] # "."
  /\ name[Len(name) - 1] = "."
  /\ name[Len(name)] = "jar"

\* glob.glob(application_path + '/*.jar'): the matching paths, in any order
Glob(dir) == { application_path \o <<f>> : f \in { g \in dir : MatchesJar(g) } }

Pad(n) == IF n < 10 THEN "0" \o ToString(n) ELSE ToString(n)

\* a timestamp that stops at the date
Strftime_DateOnly(t) == << "D" \o ToString(t \div 86400) >>

\* line 89: time.strftime('%Y%m%d-%H%M%S') of the clock value t (seconds)
Strftime(t) ==
  << "D" \o ToString(t \div 86400), "-",
     Pad((t \div 3600) % 24) \o Pad((t \div 60) % 60) \o Pad(t % 60) >>

\* the archive member name ZipFile.write derives from a file name
\* (os.path.normpath: the "." components are dropped)
RECURSIVE Normpath(_)
Normpath(path) ==
  IF path = <<>> THEN <<>>
  ELSE IF path[1] = Dot THEN Normpath(Tail(path))
  ELSE <<path[1]>> \o Normpath(Tail(path))

ZipExt == <<".", "zip">>

(* ------------------------------- state -------------------------------- *)
VARIABLES
  pc,                \* pc[r]: the statement run r executes next
  applications,      \* platform: TRUE iff the Application exists
  versions,          \* platform: the registered VersionLabels
  envStatus,         \* platform: the Environment's Status, or Absent
  buckets,           \* storage: TRUE iff the source bundle bucket exists
  objects,           \* storage: the keys stored in the bucket
  now,               \* wall clock, seconds
  libs,              \* libs[r]: the files in build/libs of run r
  buildExit,         \* buildExit[r]: exit status of ./gradlew build
  archive,           \* archive[r]: member names written to the ZIP, in order
  app_file,          \* app_file[r]: the artifact chosen by package_application
  packagedAt,        \* packagedAt[r]: the clock value read by package_application
  application_version_package_name,
  source_bundle_s3_bucket,
  environment_configuration,   \* the last describe_environments result
  wait_message_printed,
  observed,          \* observed[r]: every describe_environments result, in order
  appQuery,          \* appQuery[r]: what describe_applications returned
  notices,           \* notices[r]: how often the "waiting" notice was printed
  noticeAt,          \* noticeAt[r]: Len(observed[r]) when the notice was printed
  calls              \* every remote call issued, in order

vars == <<pc, applications, versions, envStatus, buckets, objects, now,
          libs, buildExit, archive, app_file, packagedAt,
          application_version_package_name, source_bundle_s3_bucket,
          environment_configuration, wait_message_printed, observed,
          appQuery, notices, noticeAt, calls>>

platformVars == <<applications, versions, envStatus, buckets, objects>>
buildVars == <<libs, buildExit>>
packageVars == <<archive, app_file, packagedAt, application_version_package_name>>
loopVars == <<environment_configuration, wait_message_printed, observed,
              notices, noticeAt>>

NoLabel == <<>>
NotRecorded == "n/a"
\* a remote call: who issued it, the operation, the VersionLabel or key it
\* carries, what the platform held when the call reached it (the answer to
\* describe_applications and to the bucket listing, the Environment's Status
\* for an environment request; the answers to describe_environments are kept
\* in observed), and whether it succeeded
Call(r, op, label, saw, ok) ==
  [run |-> r, op |-> op, label |-> label, saw |-> saw, ok |-> ok]

\* a remote call that names a stored object: put_object and
\* create_application_version (its SourceBundle) also carry a bucket and a key
BundleCall(r, op, label, bucket, key, ok) ==
  [run |-> r, op |-> op, label |-> label, saw |-> NotRecorded, ok |-> ok,
   bucket |-> bucket, key |-> key]

Terminal == {"done", "error"}

Init ==
  /\ pc = [r \in Runs |-> "idle"]
  /\ applications \in BOOLEAN
  /\ versions = {}
  /\ envStatus \in (IF applications THEN Statuses \cup {Absent} ELSE {Absent})
  /\ buckets \in BOOLEAN
  /\ objects = {}
  /\ now = StartTime
  /\ libs = [r \in Runs |-> {}]
  /\ buildExit = [r \in Runs |-> 0]
  /\ archive = [r \in Runs |-> <<>>]
  /\ app_file = [r \in Runs |-> <<>>]
  /\ packagedAt = [r \in Runs |-> 0]
  /\ application_version_package_name = [r \in Runs |-> <<>>]
  /\ source_bundle_s3_bucket = [r \in Runs |-> ""]
  /\ environment_configuration = [r \in Runs |-> <<>>]
  /\ wait_message_printed = [r \in Runs |-> FALSE]
  /\ observed = [r \in Runs |-> <<>>]
  /\ appQuery = [r \in Runs |-> "none"]
  /\ notices = [r \in Runs |-> 0]
  /\ noticeAt = [r \in Runs |-> 0]
  /\ calls = <<>>

(* ------------------------------ the run ------------------------------- *)
\* the script is started (one process per run)
Launch(r) ==
  /\ pc[r] = "idle"
  /\ pc' = [pc EXCEPT ![r] = "describe_applications"]
  /\ UNCHANGED <<platformVars, now, buildVars, packageVars,
                 source_bundle_s3_bucket, loopVars, appQuery, calls>>

\* a describe_applications answer that makes the run skip the creation
AfterDescribeApplications_NeverCreate(found) == "build"

\* a describe_applications answer that is not looked at
AfterDescribeApplications_AlwaysCreate(found) == "create_application"

\* line 131: the statement that follows the describe_applications answer
AfterDescribeApplications(found) ==
  IF found THEN "build" ELSE "create_application"

\* line 131: describe_applications(ApplicationNames=[application_name])
DescribeApplications(r) ==
  /\ pc[r] = "describe_applications"
  /\ \E ok \in BOOLEAN :
       /\ calls' = Append(calls, Call(r, "describe_applications", NoLabel,
                                      IF ~ok THEN NotRecorded
                                      ELSE IF applications THEN "present" ELSE "empty",
                                      ok))
       /\ IF ok
          THEN /\ appQuery' = [appQuery EXCEPT ![r] =
                                 IF applications THEN "present" ELSE "empty"]
               /\ pc' = [pc EXCEPT ![r] = AfterDescribeApplications(applications)]
          ELSE /\ pc' = [pc EXCEPT ![r] = "error"]
               /\ UNCHANGED appQuery
  /\ UNCHANGED <<platformVars, now, buildVars, packageVars,
                 source_bundle_s3_bucket, loopVars>>

\* a failed creation of the application that is not noticed
AfterCreateApplication_Ignored(ok) == "build"

\* lines 132-139: the statement that follows create_application (an error of
\* the call ends the run)
AfterCreateApplication(ok) == IF ok THEN "build" ELSE "error"

\* lines 132-137: create_application; the platform rejects a duplicate name
CreateApplication(r) ==
  /\ pc[r] = "create_application"
  /\ \E fail \in BOOLEAN :
       LET ok == ~fail /\ ~applications IN
       /\ calls' = Append(calls, Call(r, "create_application", NoLabel, NotRecorded, ok))
       /\ applications' = (applications \/ ok)
       /\ pc' = [pc EXCEPT ![r] = AfterCreateApplication(ok)]
  /\ UNCHANGED <<versions, envStatus, buckets, objects, now, buildVars,
                 packageVars, source_bundle_s3_bucket, loopVars, appQuery>>

\* lines 139-140 and 75-80: build_application removes ./build and runs
\* ./gradlew build and waits for it to exit; the exit status is not read
BuildApplication(r) ==
  /\ pc[r] = "build"
  /\ \E code \in {0, 1}, out \in SUBSET LibFiles, took \in 0..MaxBuildSeconds :
       /\ buildExit' = [buildExit EXCEPT ![r] = code]
       /\ libs' = [libs EXCEPT ![r] = out]
       /\ now' = now + took
       /\ pc' = [pc EXCEPT ![r] = "package"]
  /\ UNCHANGED <<platformVars, packageVars,
                 source_bundle_s3_bucket, loopVars, appQuery, calls>>

\* an archive that stores the artifact under its bare file name
FilesToZip_Flattened(f) == elasticbeanstalk_files_list \o << <<Basename(f)>> >>

\* line 87: the files package_application archives, given the artifact
FilesToZip(f) == elasticbeanstalk_files_list \o <<f>>

\* lines 88-89: the package name derived from the artifact and the clock
PackageName(f, t) == Splitext(Basename(f))[1] \o <<"-">> \o Strftime(t)

\* lines 142-143 and 85-94: package_application.  glob(...)[0] raises when no
\* artifact matches; zip.write raises at the first file that cannot be read
\* (missing = its index, 0 when all files are readable)
PackageApplication(r) ==
  /\ pc[r] = "package"
  /\ IF Glob(libs[r]) = {}
     THEN /\ pc' = [pc EXCEPT ![r] = "error"]
          /\ UNCHANGED packageVars
     ELSE \E f \in Glob(libs[r]), missing \in 0..Len(elasticbeanstalk_files_list) :
            LET files == FilesToZip(f)
                upto == IF missing = 0 THEN Len(files) ELSE missing - 1
            IN /\ app_file' = [app_file EXCEPT ![r] = f]
               /\ packagedAt' = [packagedAt EXCEPT ![r] = now]
               /\ archive' = [archive EXCEPT ![r] =
                                [i \in 1..upto |-> Normpath(files[i])]]
               /\ IF missing = 0
                  THEN /\ application_version_package_name' =
                            [application_version_package_name EXCEPT ![r] =
                               PackageName(f, now)]
                       /\ pc' = [pc EXCEPT ![r] = "upload"]
                  ELSE /\ UNCHANGED application_version_package_name
                       /\ pc' = [pc EXCEPT ![r] = "error"]
  /\ UNCHANGED <<platformVars, now, buildVars,
                 source_bundle_s3_bucket, loopVars, appQuery, calls>>

Region == "region"
Account == "account"
\* line 101: the bucket name
BucketName == source_bundle_s3_bucket_prefix \o "-" \o Region \o "-" \o Account

\* lines 109-111: the key under which the archive is stored
ObjectKey(name) == name \o ZipExt

\* a SourceBundle whose key is the package name without its extension
SourceBundleKey_NoExtension(name) == name

\* line 154: the S3Key of the SourceBundle of a version
SourceBundleKey(name) == name \o ZipExt

\* a bucket lookup whose answer is not looked at
AfterBucketLookup_NeverCreate(found) == "put_object"

\* line 103: the statement that follows the lookup of the bucket
AfterBucketLookup(found) == IF found THEN "put_object" ELSE "create_bucket"

\* lines 100-103: get_caller_identity and the listing of the buckets
UploadCheckBucket(r) ==
  /\ pc[r] = "upload"
  /\ \E ok \in BOOLEAN :
       /\ calls' = Append(calls, Call(r, "list_buckets", NoLabel,
                                      IF ~ok THEN NotRecorded
                                      ELSE IF buckets THEN "present" ELSE "empty",
                                      ok))
       /\ pc' = [pc EXCEPT ![r] =
                   IF ~ok THEN "error" ELSE AfterBucketLookup(buckets)]
  /\ UNCHANGED <<platformVars, now, buildVars, packageVars,
                 source_bundle_s3_bucket, loopVars, appQuery>>

\* lines 104-108: create_bucket; the storage rejects a name that is taken
CreateBucket(r) ==
  /\ pc[r] = "create_bucket"
  /\ \E fail \in BOOLEAN :
       LET ok == ~fail /\ ~buckets IN
       /\ calls' = Append(calls, Call(r, "create_bucket", NoLabel, NotRecorded, ok))
       /\ buckets' = (buckets \/ ok)
       /\ pc' = [pc EXCEPT ![r] = IF ok THEN "put_object" ELSE "error"]
  /\ UNCHANGED <<applications, versions, envStatus, objects, now,
                 buildVars, packageVars, source_bundle_s3_bucket, loopVars,
                 appQuery>>

\* lines 109-114 and 146: put_object, then the bucket name is returned
PutObject(r) ==
  /\ pc[r] = "put_object"
  /\ \E fail \in BOOLEAN :
       LET ok == ~fail /\ buckets
           key == ObjectKey(application_version_package_name[r])
       IN /\ calls' = Append(calls,
                        BundleCall(r, "put_object", key, BucketName, key, ok))
          /\ objects' = IF ok THEN objects \cup {key} ELSE objects
          /\ source_bundle_s3_bucket' =
               IF ok THEN [source_bundle_s3_bucket EXCEPT ![r] = BucketName]
               ELSE source_bundle_s3_bucket
          /\ pc' = [pc EXCEPT ![r] =
                      IF ok THEN "create_application_version" ELSE "error"]
  /\ UNCHANGED <<applications, versions, envStatus, buckets, now,
                 buildVars, packageVars, loopVars, appQuery>>

\* a failed registration that is tried again
AfterRegistration_Retried(ok) == IF ok THEN "sleep" ELSE "create_application_version"

\* a failed registration that is not noticed
AfterRegistration_Ignored(ok) == "sleep"

\* lines 149-162: the statement that follows create_application_version (an
\* error of the call ends the run)
AfterRegistration(ok) == IF ok THEN "sleep" ELSE "error"

\* lines 148-159: create_application_version with AutoCreateApplication=False;
\* the platform wants the application and the source bundle to exist and the
\* label to be new
CreateApplicationVersion(r) ==
  /\ pc[r] = "create_application_version"
  /\ \E fail \in BOOLEAN :
       LET label == application_version_package_name[r]
           key == SourceBundleKey(label)
           ok == /\ ~fail
                 /\ applications
                 /\ label \notin versions
                 /\ buckets /\ source_bundle_s3_bucket[r] = BucketName
                 /\ key \in objects
       IN /\ calls' = Append(calls,
                        BundleCall(r, "create_application_version", label,
                                   source_bundle_s3_bucket[r], key, ok))
          /\ versions' = IF ok THEN versions \cup {label} ELSE versions
          /\ pc' = [pc EXCEPT ![r] = AfterRegistration(ok)]
  /\ UNCHANGED <<applications, envStatus, buckets, objects, now,
                 buildVars, packageVars, source_bundle_s3_bucket, loopVars,
                 appQuery>>

\* line 162: time.sleep(10)
GraceSleep(r) ==
  /\ pc[r] = "sleep"
  /\ now' = now + GraceSeconds
  /\ pc' = [pc EXCEPT ![r] = "describe_environments"]
  /\ UNCHANGED <<platformVars, buildVars, packageVars,
                 source_bundle_s3_bucket, loopVars, appQuery, calls>>

\* what describe_environments(...)['Environments'] holds for a Status
Environments(status) ==
  IF status = Absent THEN <<>> ELSE <<[Status |-> status]>>

\* a wait loop that waits for updates only
OperationInProgress_OnlyUpdating(cfg) ==
  cfg # <<>> /\ cfg[1].Status = "Updating"

\* a wait loop that ends on Terminated only
OperationInProgress_UntilTerminated(cfg) ==
  cfg # <<>> /\ cfg[1].Status # "Terminated"

\* line 169: the condition of the wait loop
OperationInProgress(cfg) ==
  /\ cfg # <<>>
  /\ cfg[1].Status # "Ready"
  /\ cfg[1].Status # "Terminated"

\* a create branch that forgets the Terminated environment
MustCreate_AbsentOnly(cfg) == cfg = <<>>

\* line 176: the condition of the create branch
MustCreate(cfg) == cfg = <<>> \/ cfg[1].Status = "Terminated"

\* a script without the wait loop
AfterDescribe_NoLoop(cfg) ==
  IF MustCreate(cfg) THEN "create_environment" ELSE "update_environment"

\* lines 169 and 176: the statement that follows a describe_environments result
AfterDescribe(cfg) ==
  IF OperationInProgress(cfg) THEN "wait"
  ELSE IF MustCreate(cfg) THEN "create_environment"
  ELSE "update_environment"

\* lines 167-169 and 174-176: describe_environments, the loop test and the
\* choice of the branch
DescribeEnvironments(r) ==
  /\ pc[r] = "describe_environments"
  /\ \E ok \in BOOLEAN :
       /\ calls' = Append(calls,
                     Call(r, "describe_environments", NoLabel, NotRecorded, ok))
       /\ IF ok
          THEN LET cfg == Environments(envStatus) IN
               /\ environment_configuration' =
                    [environment_configuration EXCEPT ![r] = cfg]
               /\ observed' = [observed EXCEPT ![r] = Append(@, cfg)]
               /\ wait_message_printed' =
                    IF observed[r] = <<>>
                    THEN [wait_message_printed EXCEPT ![r] = FALSE]
                    ELSE wait_message_printed
               /\ pc' = [pc EXCEPT ![r] = AfterDescribe(cfg)]
          ELSE /\ pc' = [pc EXCEPT ![r] = "error"]
               /\ UNCHANGED <<environment_configuration, observed,
                              wait_message_printed>>
  /\ UNCHANGED <<platformVars, now, buildVars, packageVars,
                 source_bundle_s3_bucket, notices, noticeAt, appQuery>>

\* run r is in the wait loop: it has polled and is about to sleep or to poll
\* again
InWaitLoop(r) ==
  \/ pc[r] = "wait"
  \/ pc[r] = "describe_environments" /\ observed[r] # <<>>

\* a notice that is printed in every iteration
PrintsNotice_Always(printed) == TRUE

\* line 170: whether the notice is printed in this iteration
PrintsNotice(printed) == ~printed

\* a loop body that asks the platform to abort the operation it waits for
Wait_Aborts(r) ==
  /\ pc[r] = "wait"
  /\ Len(observed[r]) <= MaxPolls
  /\ calls' = Append(calls, Call(r, "abort_environment_update", NoLabel,
                                 envStatus, envStatus = "Updating"))
  /\ envStatus' = IF envStatus = "Updating" THEN "Ready" ELSE envStatus
  /\ now' = now + PollSeconds
  /\ pc' = [pc EXCEPT ![r] = "describe_environments"]
  /\ UNCHANGED <<applications, versions, buckets, objects, buildVars,
                 packageVars, source_bundle_s3_bucket, loopVars, appQuery>>

\* lines 170-173: the body of the wait loop up to the next poll
Wait(r) ==
  /\ pc[r] = "wait"
  /\ Len(observed[r]) <= MaxPolls
  /\ IF PrintsNotice(wait_message_printed[r])
     THEN /\ notices' = [notices EXCEPT ![r] = @ + 1]
          /\ noticeAt' = [noticeAt EXCEPT ![r] = Len(observed[r])]
          /\ wait_message_printed' = [wait_message_printed EXCEPT ![r] = TRUE]
     ELSE UNCHANGED <<notices, noticeAt, wait_message_printed>>
  /\ now' = now + PollSeconds
  /\ pc' = [pc EXCEPT ![r] = "describe_environments"]
  /\ UNCHANGED <<platformVars, buildVars, packageVars,
                 source_bundle_s3_bucket, environment_configuration, observed,
                 appQuery, calls>>

\* a create branch that falls through into the update branch
AfterCreate_FallThrough(ok) == IF ok THEN "update_environment" ELSE "error"

\* lines 176-192: the statement that follows create_environment (the update
\* is the else branch)
AfterCreate(ok) == IF ok THEN "done" ELSE "error"

\* lines 177-184 and 192: create_environment; the platform accepts it when
\* the environment name is free (absent or Terminated)
CreateEnvironment(r) ==
  /\ pc[r] = "create_environment"
  /\ \E fail \in BOOLEAN :
       LET label == application_version_package_name[r]
           ok == ~fail /\ applications /\ label \in versions
                 /\ envStatus \in {Absent, "Terminated"}
       IN /\ calls' = Append(calls, Call(r, "create_environment", label, envStatus, ok))
          /\ envStatus' = IF ok THEN "Launching" ELSE envStatus
          /\ pc' = [pc EXCEPT ![r] = AfterCreate(ok)]
  /\ UNCHANGED <<applications, versions, buckets, objects, now,
                 buildVars, packageVars, source_bundle_s3_bucket, loopVars,
                 appQuery>>

\* lines 185-192: update_environment; the platform accepts it when the
\* environment is Ready
UpdateEnvironment(r) ==
  /\ pc[r] = "update_environment"
  /\ \E fail \in BOOLEAN :
       LET label == application_version_package_name[r]
           ok == ~fail /\ label \in versions /\ envStatus = "Ready"
       IN /\ calls' = Append(calls, Call(r, "update_environment", label, envStatus, ok))
          /\ envStatus' = IF ok THEN "Updating" ELSE envStatus
          /\ pc' = [pc EXCEPT ![r] = IF ok THEN "done" ELSE "error"]
  /\ UNCHANGED <<applications, versions, buckets, objects, now,
                 buildVars, packageVars, source_bundle_s3_bucket, loopVars,
                 appQuery>>

(* --------------------------- the surroundings -------------------------- *)
\* the Status changes the platform makes on its own: an operation completes,
\* a terminated environment is forgotten, a managed update or a termination
\* begins on a Ready environment
PlatformMoves ==
  { <<"Launching", "Ready">>, <<"Updating", "Ready">>,
    <<"Terminating", "Terminated">>, <<"Terminated", Absent>>,
    <<"Ready", "Updating">>, <<"Ready", "Terminating">> }

\* the statements that let a run see the Status or act on the Environment
Observing ==
  \E r \in Runs :
    pc[r] \in {"describe_environments", "create_environment", "update_environment"}

\* The platform moves on its own.  A move shows only in the next
\* describe_environments answer or environment request of a run, so the moves
\* are taken when a run is about to make one of these calls (any number of
\* them, in any order, before the call).
PlatformStep ==
  /\ Observing
  /\ \E m \in PlatformMoves : envStatus = m[1] /\ envStatus' = m[2]
  /\ UNCHANGED <<pc, applications, versions, buckets, objects, now,
                 buildVars, packageVars, source_bundle_s3_bucket, loopVars,
                 appQuery, calls>>

\* the process of a run that has ended exits, with status 0 at the end of the
\* script and status 1 after an exception: its variables are gone, what it
\* did to the platform and the record of its calls stay
ExitProcess(r) ==
  /\ pc[r] \in Terminal
  /\ pc' = [pc EXCEPT ![r] = IF pc[r] = "done" THEN "exit_0" ELSE "exit_1"]
  /\ libs' = [libs EXCEPT ![r] = {}]
  /\ buildExit' = [buildExit EXCEPT ![r] = 0]
  /\ archive' = [archive EXCEPT ![r] = <<>>]
  /\ app_file' = [app_file EXCEPT ![r] = <<>>]
  /\ packagedAt' = [packagedAt EXCEPT ![r] = 0]
  /\ application_version_package_name' =
       [application_version_package_name EXCEPT ![r] = <<>>]
  /\ source_bundle_s3_bucket' = [source_bundle_s3_bucket EXCEPT ![r] = ""]
  /\ environment_configuration' = [environment_configuration EXCEPT ![r] = <<>>]
  /\ wait_message_printed' = [wait_message_printed EXCEPT ![r] = FALSE]
  /\ observed' = [observed EXCEPT ![r] = <<>>]
  /\ appQuery' = [appQuery EXCEPT ![r] = "none"]
  /\ notices' = [notices EXCEPT ![r] = 0]
  /\ noticeAt' = [noticeAt EXCEPT ![r] = 0]
  /\ UNCHANGED <<now, calls>>

\* an exit that undoes the registration of a run that failed
Exit_RollsBack(r) ==
  /\ ExitProcess(r)
  /\ versions' = IF pc[r] = "error"
                  THEN versions \ {application_version_package_name[r]}
                  ELSE versions
  /\ UNCHANGED <<applications, envStatus, buckets, objects>>

\* line 192 or an uncaught exception: nothing is undone when the script ends
Exit(r) ==
  /\ ExitProcess(r)
  /\ UNCHANGED platformVars

\* the script is run again after a run that went through
MayLaunch(r) == \A q \in Runs : q < r => pc[q] = "exit_0"

Step(r) ==
  \/ DescribeApplications(r)
  \/ CreateApplication(r)
  \/ BuildApplication(r)
  \/ PackageApplication(r)
  \/ UploadCheckBucket(r)
  \/ CreateBucket(r)
  \/ PutObject(r)
  \/ CreateApplicationVersion(r)
  \/ GraceSleep(r)
  \/ DescribeEnvironments(r)
  \/ Wait(r)
  \/ CreateEnvironment(r)
  \/ UpdateEnvironment(r)
  \/ Exit(r)

\* one execution of the script
Next ==
  \/ Launch(1)
  \/ Step(1)
  \/ PlatformStep

Spec == Init /\ [][Next]_vars

\* the script is executed, and executed again when the first run went through
NextTwice ==
  \/ \E r \in Runs : MayLaunch(r) /\ Launch(r)
  \/ \E r \in Runs : Step(r)
  \/ PlatformStep

SpecTwice == Init /\ [][NextTwice]_vars

\* the platform under the assumption that it reaches a quiescent Status and
\* stays there: the operation in progress completes, a terminated environment
\* is forgotten, and no new operation begins on its own
SettlingMoves ==
  { m \in PlatformMoves : m[1] \in InProgress \/ m[2] = Absent }

Settle ==
  /\ \E m \in SettlingMoves : envStatus = m[1] /\ envStatus' = m[2]
  /\ UNCHANGED <<pc, applications, versions, buckets, objects, now,
                 buildVars, packageVars, source_bundle_s3_bucket, loopVars,
                 appQuery, calls>>

\* no remote call has failed
AllCallsSucceed == \A i \in DOMAIN calls : calls[i].ok

\* the operation in progress completes before the last poll the bound on the
\* polls leaves to run r
SettledByLastPoll(r) ==
  (pc[r] = "describe_environments" /\ Len(observed[r]) >= MaxPolls) =>
    envStatus \notin InProgress

\* a step of run r in which no remote call fails
StepWithoutFailure(r) ==
  /\ SettledByLastPoll(r)
  /\ Step(r)
  /\ AllCallsSucceed'

\* one execution of the script against a platform that settles, every
\* remote call succeeding; the process keeps running and the platform keeps
\* completing its operations
NextSettling ==
  \/ Launch(1)
  \/ StepWithoutFailure(1)
  \/ Settle

SpecSettling ==
  /\ Init /\ [][NextSettling]_vars
  /\ WF_vars(StepWithoutFailure(1))
  /\ WF_vars(Settle)

\* the process of run r is interrupted inside the wait loop (SIGINT during
\* the sleep or the poll): no handler is installed, the process ends there
Interrupt(r) ==
  /\ InWaitLoop(r)
  /\ pc' = [pc EXCEPT ![r] = "error"]
  /\ UNCHANGED <<platformVars, now, buildVars, packageVars,
                 source_bundle_s3_bucket, loopVars, appQuery, calls>>

\* one execution of the script that may be interrupted in the wait loop
NextInterrupt ==
  \/ Launch(1)
  \/ Step(1)
  \/ PlatformStep
  \/ Interrupt(1)

SpecInterrupt == Init /\ [][NextInterrupt]_vars

\* a build that goes through at once and leaves the one jar, and a
\* packaging that finds every file
PlainBuild(r) ==
  /\ pc[r] = "build" =>
       /\ buildExit'[r] = 0
       /\ libs'[r] = {<<"app", ".", "jar">>}
       /\ now' = now
  /\ pc[r] = "package" => pc'[r] = "upload"

\* the statements at which the first execution stands between a look at the
\* platform and the request that follows it, or has ended
Overtaken ==
  pc[1] \in {"create_application", "create_environment", "update_environment",
             "done", "error", "exit_0", "exit_1"}

\* the second execution moves while the first stands at such a statement;
\* the script itself takes no lock and looks at no other process
MayMove(r) == r = 1 \/ Overtaken

\* a statement of run r while another execution of the script is under way
ConcurrentStep(r) == MayMove(r) /\ Step(r) /\ PlainBuild(r)

\* the script is executed twice at the same time, against the same
\* application and environment
NextConcurrent ==
  \/ \E r \in Runs : MayMove(r) /\ Launch(r)
  \/ \E r \in Runs : ConcurrentStep(r)
  \/ PlatformStep

SpecConcurrent == Init /\ [][NextConcurrent]_vars

TypeOK ==
  /\ pc \in [Runs -> {"idle", "describe_applications", "create_application",
                      "build", "package", "upload", "create_bucket",
                      "put_object", "create_application_version", "sleep",
                      "describe_environments", "wait", "create_environment",
                      "update_environment", "done", "error", "exit_0", "exit_1"}]
  /\ envStatus \in Statuses \cup {Absent}
  /\ applications \in BOOLEAN /\ buckets \in BOOLEAN

(* ------------------------------ properties ---------------------------- *)
Last(seq) == seq[Len(seq)]

\* the positions in the record of the calls of run r's calls of operation op
CallsOf(r, op) == { i \in DOMAIN calls : calls[i].run = r /\ calls[i].op = op }

EnvRequests(r) == CallsOf(r, "create_environment") \cup CallsOf(r, "update_environment")

\* the process of run r is alive or has just ended
Live(r) == pc[r] \notin {"idle", "exit_0", "exit_1"}

EmptyResult == <<>>
Result(status) == <<[Status |-> status]>>
QuiescentResults == {EmptyResult, Result("Ready"), Result("Terminated")}

\* C1 as stated: whenever a run issues create_environment or
\* update_environment, the Status the Environment actually has at that
\* moment is not an in-progress one.
C1_ActualStatusNeverInProgress ==
  \A r \in Runs : \A i \in EnvRequests(r) : calls[i].saw \notin InProgress

\* C1 amended: whenever a run issues (or is about to issue) create_environment
\* or update_environment, the Status it last observed with
\* describe_environments is not an in-progress one: the result was empty,
\* Ready or Terminated.
C1_ObservedStatusNeverInProgress ==
  \A r \in Runs :
    (Live(r) /\ (pc[r] \in {"create_environment", "update_environment"}
                 \/ EnvRequests(r) # {}))
      => /\ observed[r] # <<>>
         /\ Last(observed[r]) \in QuiescentResults
         /\ environment_configuration[r] = Last(observed[r])

\* a run waited out an operation in progress and then issued its request
C1_Witness ==
  /\ pc[1] = "done"
  /\ Len(observed[1]) >= 2
  /\ observed[1][1] = Result("Launching")
  /\ EnvRequests(1) # {}

\* C2: in a run whose describe_applications answer is empty, exactly one
\* create_application call is issued, and it is issued before the run's
\* create_application_version call.
C2_CreateApplicationOnceBeforeVersion ==
  \A r \in Runs :
    appQuery[r] = "empty" =>
      /\ Cardinality(CallsOf(r, "create_application")) <= 1
      /\ pc[r] # "create_application"
           => Cardinality(CallsOf(r, "create_application")) = 1
      /\ \A j \in CallsOf(r, "create_application_version") :
           \E i \in CallsOf(r, "create_application") : i < j

C2_Witness ==
  /\ appQuery[1] = "empty"
  /\ pc[1] = "done"
  /\ \E j \in CallsOf(1, "create_application_version") : calls[j].ok

\* C3: a run that finds the application existing issues no
\* create_application call, up to and including its end.
C3_NoCreateWhenApplicationExists ==
  \A r \in Runs :
    appQuery[r] = "present" => CallsOf(r, "create_application") = {}

C3_Witness ==
  /\ appQuery[1] = "present"
  /\ pc[1] = "done"

\* C4: a run that left the wait loop (its last observation is absent,
\* Terminated or Ready) issues exactly one environment request: one of
\* create_environment and update_environment, once, and never both.
C4_ExactlyOneEnvironmentRequest ==
  \A r \in Runs :
    /\ Cardinality(EnvRequests(r)) <= 1
    /\ (pc[r] \in Terminal /\ observed[r] # <<>>
          /\ Last(observed[r]) \in QuiescentResults)
         => Cardinality(EnvRequests(r)) = 1

C4_Witness ==
  /\ pc[1] = "done"
  /\ Last(observed[1]) = Result("Terminated")
  /\ Cardinality(CallsOf(1, "create_environment")) = 1
  /\ CallsOf(1, "update_environment") = {}

\* C5: create_environment is issued iff the last describe_environments
\* result was empty or Terminated, update_environment iff it was Ready.
C5_BranchFollowsLastObservation ==
  \A r \in Runs :
    Live(r) =>
      /\ \A i \in EnvRequests(r) :
           /\ observed[r] # <<>>
           /\ (calls[i].op = "create_environment")
                <=> (Last(observed[r]) \in {EmptyResult, Result("Terminated")})
           /\ (calls[i].op = "update_environment")
                <=> (Last(observed[r]) = Result("Ready"))
      /\ (pc[r] \in Terminal /\ observed[r] # <<>>)
           => /\ Last(observed[r]) \in {EmptyResult, Result("Terminated")}
                   => CallsOf(r, "create_environment") # {}
              /\ Last(observed[r]) = Result("Ready")
                   => CallsOf(r, "update_environment") # {}

C5_Witness ==
  /\ pc[1] \in Terminal
  /\ Len(observed[1]) >= 2
  /\ Last(observed[1]) = Result("Terminated")
  /\ CallsOf(1, "create_environment") # {}

\* C6: the VersionLabel of an environment request is the label of a
\* create_application_version call the same run issued earlier and that
\* succeeded.
C6_EnvironmentUsesRegisteredLabel ==
  \A r \in Runs : \A i \in EnvRequests(r) :
    \E j \in CallsOf(r, "create_application_version") :
      /\ j < i
      /\ calls[j].ok
      /\ calls[j].label = calls[i].label
      /\ calls[i].label # NoLabel

C6_Witness ==
  /\ pc[1] = "done"
  /\ \E i \in CallsOf(1, "update_environment") : calls[i].ok

\* the positions of the in-progress observations of run r
InProgressSeen(r) ==
  { i \in DOMAIN observed[r] : observed[r][i] \notin QuiescentResults }

\* C7: the "waiting" notice is printed at most once per run; once the run is
\* past the print statement it has been printed exactly once iff some poll
\* observed an in-progress Status, at the first such observation; it is not
\* printed when the first observation is absent, Ready or Terminated.
C7_WaitingNoticeOnce ==
  \A r \in Runs :
    /\ notices[r] <= 1
    /\ notices[r] = 1 =>
         /\ InProgressSeen(r) # {}
         /\ \A i \in InProgressSeen(r) : noticeAt[r] <= i
         /\ noticeAt[r] \in InProgressSeen(r)
    /\ (InProgressSeen(r) # {} /\ ~(pc[r] = "wait" /\ Len(observed[r]) = 1))
         => notices[r] = 1
    /\ (observed[r] # <<>> /\ observed[r][1] \in QuiescentResults)
         => notices[r] = 0

C7_Witness ==
  /\ Len(observed[1]) = 3
  /\ Cardinality(InProgressSeen(1)) = 2
  /\ notices[1] = 1

\* the mutating remote calls that follow the build
AfterBuildCalls(r) ==
  CallsOf(r, "create_bucket") \cup CallsOf(r, "put_object")
    \cup CallsOf(r, "create_application_version") \cup EnvRequests(r)

\* C8: when the external build exits non-zero the run halts before
\* packaging: no archive, no upload, no version, no environment request.
C8_FailedBuildHalts ==
  \A r \in Runs :
    buildExit[r] # 0 =>
      /\ pc[r] \in {"package", "error", "exit_1"}
      /\ archive[r] = <<>>
      /\ AfterBuildCalls(r) = {}

Versions(r) == CallsOf(r, "create_application_version")

\* run r found the application existing and issued its environment request
\* to an Environment that was Ready
RanAgainstReady(r) ==
  /\ \E i \in CallsOf(r, "describe_applications") : calls[i].saw = "present"
  /\ \E i \in EnvRequests(r) : calls[i].saw = "Ready"

\* C9: two runs in sequence, each finding the application existing and the
\* Environment Ready at its decision point, register two distinct version
\* labels with two create_application_version calls and issue two
\* update_environment calls, no create_environment and no
\* create_application call.
C9_TwoRunsTwoVersionsTwoUpdates ==
  /\ RanAgainstReady(1) =>
       \A i \in Versions(1), j \in Versions(2) : calls[i].label # calls[j].label
  /\ (RanAgainstReady(1) /\ RanAgainstReady(2)) =>
       \A r \in Runs :
         /\ Cardinality(Versions(r)) = 1
         /\ \A i \in Versions(r) : calls[i].ok
         /\ Cardinality(CallsOf(r, "update_environment")) = 1
         /\ \A i \in CallsOf(r, "update_environment"), j \in Versions(r) :
              calls[i].label = calls[j].label
         /\ CallsOf(r, "create_environment") = {}
         /\ CallsOf(r, "create_application") = {}

C9_Witness ==
  /\ pc[2] = "done"
  /\ RanAgainstReady(1)
  /\ RanAgainstReady(2)
  /\ \A r \in Runs : \E i \in CallsOf(r, "update_environment") : calls[i].ok

Range(seq) == { seq[i] : i \in DOMAIN seq }

\* the fixed descriptor files, as relative paths
DescriptorPaths ==
  { << <<"Dockerrun", ".", "aws", ".", "json">> >>,
    << <<"Dockerfile">> >>,
    << <<"env", ".", "yaml">> >> }

\* C10: the archive package_application wrote holds exactly the three
\* descriptor files and one artifact found in build/libs, each under its
\* relative path, and the name it returned is the artifact's stem, '-', and
\* the timestamp of the moment of packaging.
C10_ArchiveAndPackageName ==
  \A r \in Runs :
    application_version_package_name[r] # <<>> =>
      /\ \E jar \in libs[r] :
           /\ jar[Len(jar)] = "jar"
           /\ Len(archive[r]) = 4
           /\ Range(archive[r]) =
                DescriptorPaths \cup { << <<"build">>, <<"libs">>, jar >> }
           /\ application_version_package_name[r] =
                SubSeq(jar, 1, Len(jar) - 2) \o <<"-">> \o Strftime(packagedAt[r])
      /\ pc[r] = "upload" => packagedAt[r] = now

C10_Witness ==
  /\ pc[1] = "upload"
  /\ Cardinality(libs[1]) = 3
  /\ application_version_package_name[1] = <<"app-1", ".", "0", "-", "D0", "-", "000059">>
  /\ Len(archive[1]) = 4

\* the place of a remote operation in the pipeline
StepRank(op) ==
  CASE op = "describe_applications" -> 1
    [] op = "create_application" -> 2
    [] op = "list_buckets" -> 3
    [] op = "create_bucket" -> 4
    [] op = "put_object" -> 5
    [] op = "create_application_version" -> 6
    [] op = "describe_environments" -> 7
    [] OTHER -> 8

OkCallsOf(r, op) == { i \in CallsOf(r, op) : calls[i].ok }

\* run r has made sure of the application
Ensured(r) ==
  \/ \E i \in OkCallsOf(r, "describe_applications") : calls[i].saw = "present"
  \/ OkCallsOf(r, "create_application") # {}

\* run r has started packaging: it looked for the artifact or wrote the archive
Packaging(r) ==
  \/ archive[r] # <<>>
  \/ application_version_package_name[r] # <<>>
  \/ CallsOf(r, "list_buckets") # {}

\* the remote calls of run r follow the order of the pipeline, and only the
\* environment poll is repeated
CallsInOrder(r) ==
  \A i, j \in DOMAIN calls :
    (i < j /\ calls[i].run = r /\ calls[j].run = r) =>
      \/ StepRank(calls[i].op) < StepRank(calls[j].op)
      \/ calls[i].op = "describe_environments" /\ calls[j].op = "describe_environments"

\* every step run r has started follows the success of the one before it,
\* the build left aside
PredecessorsSucceeded(r) ==
  /\ (pc[r] \in {"build", "package"} \/ Packaging(r)) => Ensured(r)
  /\ CallsOf(r, "list_buckets") # {} =>
        /\ Len(archive[r]) = Len(elasticbeanstalk_files_list) + 1
        /\ application_version_package_name[r] # <<>>
  /\ CallsOf(r, "put_object") # {} =>
        \E i \in OkCallsOf(r, "list_buckets") :
          calls[i].saw = "present" \/ OkCallsOf(r, "create_bucket") # {}
  /\ CallsOf(r, "create_application_version") # {} =>
        OkCallsOf(r, "put_object") # {}
  /\ observed[r] # <<>> \/ CallsOf(r, "describe_environments") # {} =>
        /\ OkCallsOf(r, "create_application_version") # {}
        /\ now >= packagedAt[r] + GraceSeconds
  /\ EnvRequests(r) # {} => OkCallsOf(r, "describe_environments") # {}

\* a run that reached Done has skipped no step
NothingSkipped(r) ==
  pc[r] = "done" =>
    /\ Ensured(r)
    /\ Len(archive[r]) = Len(elasticbeanstalk_files_list) + 1
    /\ OkCallsOf(r, "put_object") # {}
    /\ OkCallsOf(r, "create_application_version") # {}
    /\ OkCallsOf(r, "describe_environments") # {}
    /\ \E i \in EnvRequests(r) : calls[i].ok

\* the order of the pipeline without the success of the build
C11_OrderApartFromBuild ==
  \A r \in Runs :
    Live(r) => CallsInOrder(r) /\ PredecessorsSucceeded(r) /\ NothingSkipped(r)

\* C11: in every run the steps occur in the order ensure-application, build,
\* package, upload, register-version, grace wait, first poll, environment
\* request; no step starts before the one before it has completed
\* successfully (packaging only after a build that exited 0), and a run that
\* reaches Done has skipped none.
C11_StepsInOrderAfterSuccess ==
  \A r \in Runs :
    Live(r) =>
      /\ CallsInOrder(r) /\ PredecessorsSucceeded(r) /\ NothingSkipped(r)
      /\ Packaging(r) => buildExit[r] = 0

\* C12: the wait loop is left only on a most recent describe_environments
\* result that is empty, Ready or Terminated, and it is left on such a
\* result; while the most recent result shows another Status the run is
\* about to poll again (or the poll it issued has failed) and has issued
\* neither create_environment nor update_environment.
C12_LoopLeftOnQuiescentResultOnly ==
  \A r \in Runs :
    (Live(r) /\ observed[r] # <<>>) =>
      LET last == Last(observed[r])
          polls == CallsOf(r, "describe_environments")
      IN /\ last \notin QuiescentResults =>
              /\ EnvRequests(r) = {}
              /\ pc[r] \in {"wait", "describe_environments", "error"}
              /\ pc[r] # "error" => Cardinality(polls) = Len(observed[r])
              /\ pc[r] = "error" =>
                    /\ Cardinality(polls) = Len(observed[r]) + 1
                    /\ Last(calls).op = "describe_environments"
                    /\ ~Last(calls).ok
         /\ last \in QuiescentResults =>
              /\ ~InWaitLoop(r)
              /\ Cardinality(polls) = Len(observed[r])
         /\ \A i \in 1..(Len(observed[r]) - 1) :
              observed[r][i] \notin QuiescentResults

\* a run has polled twice, first seeing an operation in progress, and has
\* left the loop for one of the two branches
C12_Witness ==
  /\ pc[1] \in {"create_environment", "update_environment"}
  /\ Len(observed[1]) = 2
  /\ observed[1][1] \notin QuiescentResults
  /\ Last(observed[1]) \in QuiescentResults
  /\ EnvRequests(1) = {}

\* every poll of run r so far has observed an operation in progress
OnlyInProgressSeen(r) ==
  observed[r] # <<>> /\ InProgressSeen(r) = DOMAIN observed[r]

\* C13: the wait loop has no cap of its own: as long as every poll has
\* observed an in-progress Status the run is still polling, has not reached
\* Done and has issued no environment request, however many polls it made;
\* when the platform settles in Ready, Terminated or absent and no remote
\* call fails, a run that has come to the wait loop eventually issues its
\* environment request and reaches Done.
C13_PollsUntilSettledThenDone ==
  /\ [](\A r \in Runs :
          OnlyInProgressSeen(r) =>
            /\ pc[r] \in {"wait", "describe_environments"}
            /\ EnvRequests(r) = {})
  /\ (pc[1] = "describe_environments") ~>
        (pc[1] = "done" /\ \E i \in EnvRequests(1) : calls[i].ok)

\* a run has made as many polls as the bound lets it see in progress, all of
\* them observing an operation in progress, and polls again
C13_Witness ==
  /\ pc[1] = "describe_environments"
  /\ Len(observed[1]) = MaxPolls
  /\ OnlyInProgressSeen(1)
  /\ envStatus \notin InProgress

\* the calls of run r, whatever the operation
AllCallsOf(r) == { i \in DOMAIN calls : calls[i].run = r }

\* C14: a storage or platform call that fails ends the run in the error
\* state at once: the failed call is the last call of its run (it is not
\* issued again and no later remote call follows it), and no local step of
\* the pipeline is taken after it.
C14_FailedCallEndsRun ==
  \A r \in Runs : \A i \in AllCallsOf(r) :
    ~calls[i].ok =>
      /\ pc[r] \in {"error", "exit_1"}
      /\ \A j \in AllCallsOf(r) : j <= i
      /\ (Live(r) /\ StepRank(calls[i].op) <= 2) =>
            (libs[r] = {} /\ ~Packaging(r))
      /\ (Live(r) /\ StepRank(calls[i].op) <= 6) =>
            (observed[r] = <<>> /\ notices[r] = 0)

\* the registration of the version has failed after a successful upload
C14_Witness ==
  /\ pc[1] = "error"
  /\ OkCallsOf(1, "put_object") # {}
  /\ Last(calls).op = "create_application_version"
  /\ ~Last(calls).ok

\* the remote operations of the script: none of them deletes anything
IssuedOperations ==
  {"describe_applications", "create_application", "list_buckets",
   "create_bucket", "put_object", "create_application_version",
   "describe_environments", "create_environment", "update_environment"}

\* what run r has created is on the platform
CreatedPersists(r) ==
  /\ OkCallsOf(r, "create_application") # {} => applications
  /\ OkCallsOf(r, "create_bucket") # {} => buckets
  /\ \A i \in OkCallsOf(r, "put_object") : buckets /\ calls[i].key \in objects
  /\ \A i \in OkCallsOf(r, "create_application_version") :
       calls[i].label \in versions

\* run r has failed
Failed(r) == pc[r] \in {"error", "exit_1"}

\* C15: a run that fails issues no delete or compensating call, in the step
\* that fails and after it the application, the bucket, the stored objects
\* and the versions stay as they are, and so the application, the object and
\* the version the run created are still there after the failed run.
C15_FailedRunLeavesCreatedEntities ==
  /\ [](\A r \in Runs :
          /\ \A i \in AllCallsOf(r) : calls[i].op \in IssuedOperations
          /\ Failed(r) => CreatedPersists(r))
  /\ [][\A r \in Runs :
          Failed(r)' => UNCHANGED <<applications, versions, buckets, objects>>]_vars

\* a run that created the application and registered a version has failed at
\* its environment request and has exited
C15_Witness ==
  /\ pc[1] = "exit_1"
  /\ OkCallsOf(1, "create_application") # {}
  /\ OkCallsOf(1, "create_application_version") # {}
  /\ \E i \in EnvRequests(1) : ~calls[i].ok
  /\ applications /\ versions # {} /\ objects # {}

\* the answered bucket lookups of run r that did not find the bucket
LookupsWithoutBucket(r) ==
  { i \in OkCallsOf(r, "list_buckets") : calls[i].saw = "empty" }

\* C16: in the upload the lookup of the bucket comes before the write of the
\* object: create_bucket is issued iff the lookup did not find the bucket
\* named prefix-region-account, at most once and after the lookup; put_object
\* is issued only after the lookup, when the bucket exists (found, or created
\* in between), into that bucket and with the package name plus ".zip" as
\* its key.
C16_BucketCheckedBeforeObjectWrite ==
  \A r \in Runs :
    LET lookups == CallsOf(r, "list_buckets")
        creates == CallsOf(r, "create_bucket")
        puts == CallsOf(r, "put_object")
    IN /\ Cardinality(lookups) <= 1
       /\ Cardinality(creates) <= 1
       /\ Cardinality(puts) <= 1
       /\ (pc[r] \notin {"upload", "create_bucket"}) =>
            (creates # {} <=> LookupsWithoutBucket(r) # {})
       /\ \A k \in creates : \E i \in LookupsWithoutBucket(r) : i < k
       /\ pc[r] = "put_object" => buckets
       /\ \A j \in puts :
            /\ buckets
            /\ \E i \in OkCallsOf(r, "list_buckets") :
                 /\ i < j
                 /\ \/ calls[i].saw = "present"
                    \/ \E k \in OkCallsOf(r, "create_bucket") : i < k /\ k < j
            /\ calls[j].bucket =
                 source_bundle_s3_bucket_prefix \o "-" \o Region \o "-" \o Account
            /\ Live(r) =>
                 calls[j].key = application_version_package_name[r] \o <<".", "zip">>

\* a run did not find the bucket, created it and wrote the object
C16_Witness ==
  /\ LookupsWithoutBucket(1) # {}
  /\ OkCallsOf(1, "create_bucket") # {}
  /\ OkCallsOf(1, "put_object") # {}
  /\ pc[1] = "create_application_version"

\* C17: the version a run registers points at the object the same run has
\* uploaded: the S3Bucket and S3Key of its create_application_version call
\* are the bucket and the key of its own put_object call, made before and
\* successful, and its VersionLabel is that key without ".zip".
C17_VersionPointsAtUploadedObject ==
  \A r \in Runs : \A j \in CallsOf(r, "create_application_version") :
    /\ \E i \in OkCallsOf(r, "put_object") :
         /\ i < j
         /\ calls[j].bucket = calls[i].bucket
         /\ calls[j].key = calls[i].key
    /\ calls[j].key = calls[j].label \o <<".", "zip">>
    /\ calls[j].key \in objects

\* a run has registered its version
C17_Witness ==
  /\ pc[1] = "sleep"
  /\ \E j \in OkCallsOf(1, "create_application_version") :
       /\ calls[j].label = application_version_package_name[1]
       /\ calls[j].label \in versions

\* C18: two executions at the same time are not serialized: each acts on
\* its own observations whatever the other has done since.  A run whose
\* describe_applications answer was empty issues create_application, and a
\* run whose last describe_environments answer was absent or Terminated
\* (Ready) issues create_environment (update_environment), also when the
\* other run has created the application or started an operation on the
\* environment in between; the interleavings of the claim are the states of
\* C18_Witness and C18_ApplicationRace.
C18_RunsActOnOwnObservations ==
  \A r \in Runs :
    Live(r) =>
      /\ (appQuery[r] = "empty" /\ pc[r] # "create_application") =>
            Cardinality(CallsOf(r, "create_application")) = 1
      /\ CallsOf(r, "create_application") # {} => appQuery[r] = "empty"
      /\ (pc[r] \in Terminal /\ observed[r] # <<>>
            /\ Last(observed[r]) \in QuiescentResults) =>
            /\ Cardinality(EnvRequests(r)) = 1
            /\ \A i \in EnvRequests(r) :
                 calls[i].op = IF Last(observed[r]) = Result("Ready")
                               THEN "update_environment"
                               ELSE "create_environment"

\* both runs have seen the environment absent and both have issued
\* create_environment: the first request started the launch, the second
\* reached the platform while that launch was in progress
C18_Witness ==
  /\ calls # <<>>
  /\ Last(calls).run = 2 /\ Last(calls).op = "create_environment"
  /\ Last(calls).saw = "Launching" /\ ~Last(calls).ok
  /\ observed[1] # <<>> /\ Last(observed[1]) = EmptyResult
  /\ observed[2] # <<>> /\ Last(observed[2]) = EmptyResult
  /\ \E i \in OkCallsOf(1, "create_environment") :
       \A k \in CallsOf(2, "describe_environments") : k < i

\* both runs have seen the application absent and both have issued
\* create_application; the platform accepted one and rejected the other
C18_ApplicationRace ==
  /\ appQuery[1] = "empty" /\ appQuery[2] = "empty"
  /\ \E i \in CallsOf(1, "create_application"), j \in CallsOf(2, "create_application") :
       /\ calls[i].ok # calls[j].ok
       /\ \A k \in CallsOf(1, "describe_applications")
                     \cup CallsOf(2, "describe_applications") : k < i /\ k < j

\* a run issues update_environment while the update the other run has
\* requested is in progress
C18_UpdateDuringUpdate ==
  /\ calls # <<>>
  /\ Last(calls).run = 2 /\ Last(calls).op = "update_environment"
  /\ Last(calls).saw = "Updating" /\ ~Last(calls).ok
  /\ \E i \in OkCallsOf(1, "update_environment") :
       /\ i = Len(calls) - 1
       /\ \A k \in CallsOf(2, "describe_environments") : k < i

\* C19: while a run is in the wait loop, every step leaves the application,
\* the bucket, the stored objects and the versions as they are; the
\* Environment changes only by a move of the platform itself; the only call
\* the run adds to the record is describe_environments; and so a run
\* interrupted inside the loop has issued no environment request.
C19_WaitLoopOnlyObserves ==
  /\ [][\A r \in Runs :
          InWaitLoop(r) =>
            /\ UNCHANGED <<applications, versions, buckets, objects>>
            /\ envStatus' # envStatus =>
                  (<<envStatus, envStatus'>> \in PlatformMoves /\ calls' = calls)
            /\ calls' # calls =>
                  /\ Len(calls') = Len(calls) + 1
                  /\ Last(calls').run = r
                  /\ Last(calls').op = "describe_environments"
                  /\ \A i \in DOMAIN calls : calls'[i] = calls[i]]_vars
  /\ [](\A r \in Runs : InWaitLoop(r) => EnvRequests(r) = {})

\* a run has been interrupted in the wait loop: its last poll was answered
\* with an operation in progress and its process has ended
C19_Witness ==
  /\ pc[1] = "error"
  /\ observed[1] # <<>>
  /\ Last(observed[1]) \notin QuiescentResults
  /\ Last(calls).op = "describe_environments" /\ Last(calls).ok
  /\ Cardinality(CallsOf(1, "describe_environments")) = 2
  /\ EnvRequests(1) = {}
  /\ versions # {}

\* C20: in a single run, with nobody deleting applications, the application
\* exists when create_application_version (AutoCreateApplication=False) is
\* issued, found by the run's describe_applications or created by its
\* create_application before; the registration is never attempted for an
\* application the run has neither found nor created.
C20_ApplicationExistsAtRegistration ==
  \A r \in Runs :
    /\ pc[r] = "create_application_version" => (applications /\ Ensured(r))
    /\ \A j \in CallsOf(r, "create_application_version") :
         /\ applications
         /\ \E i \in OkCallsOf(r, "describe_applications")
                       \cup OkCallsOf(r, "create_application") :
              /\ i < j
              /\ calls[i].op = "describe_applications" => calls[i].saw = "present"

\* a run that created the application itself is about to register its version
C20_Witness ==
  /\ pc[1] = "create_application_version"
  /\ OkCallsOf(1, "create_application") # {}
  /\ applications

============================================================================
